---- MODULE Spec2Model ----
(***************************************************************************)
(* Model of flattern.py: the comment scanners and their dispatch by file   *)
(* extension, the whitespace normaliser and the chunk splitter.            *)
(*                                                                         *)
(* A text is a sequence of one-character strings.  Indices of the Python   *)
(* code are 0-based: text[i] of the code is text[i + 1] here, and the      *)
(* slice text[a:b] is Slice(text, a, b).                                   *)
(***************************************************************************)
EXTENDS Integers, Sequences, FiniteSets, TLC

VARIABLES
    fn,     \* the function being executed
    arg,    \* its arguments
    st,     \* its local variables
    pc,     \* "collect" (main) and "call" before the body runs, "loop" while
            \* the loop runs, "done" once the function has returned
    ret,    \* its return value (meaningful when pc = "done")
    main    \* the locals of main when main is the caller, else NoMain

vars == <<fn, arg, st, pc, ret, main>>

NoMain == [active |-> FALSE]

----------------------------------------------------------------------------
(* Bounds of the model *)

MaxLen == 4      \* longest text given to the C-like, SQL and hash-line scanners
MaxLenPy == 5    \* longest text given to the Python scanner
MaxPhrase == 4   \* most tokens in a text given to a scanner as a phrase
MaxContentTokens == 3   \* most tokens in a text given to process_content
MaxNormLen == 4      \* longest text given to normalise_whitespace
MaxTabSpaces == 2    \* largest tab width
MaxCollapse == 2     \* largest number of blank lines kept in a run
MaxTokens == 5       \* most tokens in a text given to chunk_text directly
MaxBudget == 15      \* largest budget of a direct call of chunk_text
MaxFiles == 3        \* most files given to main
MaxChunkChars == 46  \* largest budget given to main

----------------------------------------------------------------------------
(* Characters *)

NL == "\n"
BS == "\\"
DQ == "\""
SQ == "'"
BT == "bt"    \* the backtick, which no TLA+ string can hold
CR == "\r"
TAB == "\t"
FF == "\f"
BOM == "bom"   \* the byte-order mark U+FEFF

CAlphabet == {"/", "*", DQ, SQ, BT, BS, NL, "a"}
SqlAlphabet == {"-", "/", "*", DQ, SQ, BS, NL, "a"}
HashAlphabet == {"#", DQ, SQ, BS, NL, CR, "a"}
PyAlphabet == {"#", DQ, SQ, BS, NL, "a"}

RECURSIVE Texts(_, _)
\* Every text over alphabet A of length at most n
Texts(A, n) ==
    IF n = 0 THEN {<<>>}
    ELSE LET shorter == Texts(A, n - 1)
         IN  shorter \cup {Append(t, c) : t \in {u \in shorter : Len(u) = n - 1}, c \in A}

----------------------------------------------------------------------------
(* Python string helpers *)

\* text[a:b] for 0 <= a, b (clamped to the text as Python clamps a slice)
Slice(s, a, b) ==
    LET hi == IF b > Len(s) THEN Len(s) ELSE b
    IN  IF a >= hi THEN <<>> ELSE SubSeq(s, a + 1, hi)

\* Whether pat occurs in s at index i
At(s, pat, i) == i + Len(pat) <= Len(s) /\ SubSeq(s, i + 1, i + Len(pat)) = pat

\* s.find(pat, lo, hi): the lowest index in [lo, hi) where pat lies wholly, else -1
Find(s, pat, lo, hi) ==
    LET top  == IF hi > Len(s) THEN Len(s) ELSE hi
        hits == {i \in lo .. top - Len(pat) : At(s, pat, i)}
    IN  IF hits = {} THEN -1 ELSE CHOOSE i \in hits : \A j \in hits : i <= j

\* s.rfind(pat, lo, hi): the highest index in [lo, hi) where pat lies wholly, else -1
RFind(s, pat, lo, hi) ==
    LET top  == IF hi > Len(s) THEN Len(s) ELSE hi
        hits == {i \in lo .. top - Len(pat) : At(s, pat, i)}
    IN  IF hits = {} THEN -1 ELSE CHOOSE i \in hits : \A j \in hits : i >= j

RECURSIVE ReplaceCRLF(_)
\* s.replace("\r\n", "\n")
ReplaceCRLF(s) ==
    IF s = <<>> THEN <<>>
    ELSE IF Len(s) >= 2 /\ s[1] = CR /\ s[2] = NL THEN <<NL>> \o ReplaceCRLF(SubSeq(s, 3, Len(s)))
    ELSE <<s[1]>> \o ReplaceCRLF(Tail(s))

\* s.replace("\r", "\n")
ReplaceCR(s) == [k \in 1 .. Len(s) |-> IF s[k] = CR THEN NL ELSE s[k]]

\* s.replace("\r\n", "\n").replace("\r", "\n")
UnixNewlines(s) == ReplaceCR(ReplaceCRLF(s))

RECURSIVE SplitLines(_)
\* s.split("\n"): always at least one line
SplitLines(s) ==
    LET k == Find(s, <<NL>>, 0, Len(s))
    IN  IF k = -1 THEN <<s>> ELSE <<Slice(s, 0, k)>> \o SplitLines(Slice(s, k + 1, Len(s)))

RECURSIVE JoinLines(_)
\* "\n".join(lines)
JoinLines(lines) ==
    IF lines = <<>> THEN <<>>
    ELSE IF Len(lines) = 1 THEN lines[1]
    ELSE lines[1] \o <<NL>> \o JoinLines(Tail(lines))

----------------------------------------------------------------------------
(* strip_c_like_comments *)

CLocals(text) ==
    [i |-> 0, out |-> <<>>, in_line |-> FALSE, in_block |-> FALSE,
     in_str |-> FALSE, in_char |-> FALSE, escape |-> FALSE, quote |-> ""]

\* CStep with the escape test dropped from the literal branch: a quote closes
\* the literal whether or not a backslash precedes it
CStepNoEscape(text, s) ==
    LET n   == Len(text)
        ch  == text[s.i + 1]
        nxt == IF s.i + 1 < n THEN text[s.i + 2] ELSE ""
    IN  IF s.in_line THEN
            IF ch = NL
            THEN [s EXCEPT !.in_line = FALSE, !.out = Append(@, ch), !.i = @ + 1]
            ELSE [s EXCEPT !.i = @ + 1]
        ELSE IF s.in_block THEN
            IF ch = "*" /\ nxt = "/"
            THEN [s EXCEPT !.in_block = FALSE, !.i = @ + 2]
            ELSE [s EXCEPT !.i = @ + 1]
        ELSE IF s.in_str \/ s.in_char THEN
            LET t == [s EXCEPT !.out = Append(@, ch), !.i = @ + 1, !.escape = FALSE]
            IN  IF s.in_str /\ ch = s.quote THEN [t EXCEPT !.in_str = FALSE]
                ELSE IF s.in_char /\ ch = SQ THEN [t EXCEPT !.in_char = FALSE]
                ELSE IF ch = BS /\ ~s.escape THEN [t EXCEPT !.escape = TRUE]
                ELSE t
        ELSE IF ch = "/" /\ nxt = "/" THEN [s EXCEPT !.in_line = TRUE, !.i = @ + 2]
        ELSE IF ch = "/" /\ nxt = "*" THEN [s EXCEPT !.in_block = TRUE, !.i = @ + 2]
        ELSE IF ch \in {DQ, BT}
            THEN [s EXCEPT !.in_str = TRUE, !.quote = ch, !.out = Append(@, ch), !.i = @ + 1]
        ELSE IF ch = SQ
            THEN [s EXCEPT !.in_char = TRUE, !.out = Append(@, ch), !.i = @ + 1]
        ELSE [s EXCEPT !.out = Append(@, ch), !.i = @ + 1]

\* CStep without the out.append of the newline that ends a line comment
CStepNewlineDropped(text, s) ==
    LET n   == Len(text)
        ch  == text[s.i + 1]
        nxt == IF s.i + 1 < n THEN text[s.i + 2] ELSE ""
    IN  IF s.in_line THEN
            IF ch = NL
            THEN [s EXCEPT !.in_line = FALSE, !.i = @ + 1]
            ELSE [s EXCEPT !.i = @ + 1]
        ELSE IF s.in_block THEN
            IF ch = "*" /\ nxt = "/"
            THEN [s EXCEPT !.in_block = FALSE, !.i = @ + 2]
            ELSE [s EXCEPT !.i = @ + 1]
        ELSE IF s.in_str \/ s.in_char THEN
            LET t == [s EXCEPT !.out = Append(@, ch), !.i = @ + 1]
            IN  IF s.escape THEN [t EXCEPT !.escape = FALSE]
                ELSE IF ch = BS THEN [t EXCEPT !.escape = TRUE]
                ELSE IF s.in_str /\ ch = s.quote THEN [t EXCEPT !.in_str = FALSE]
                ELSE IF s.in_char /\ ch = SQ THEN [t EXCEPT !.in_char = FALSE]
                ELSE t
        ELSE IF ch = "/" /\ nxt = "/" THEN [s EXCEPT !.in_line = TRUE, !.i = @ + 2]
        ELSE IF ch = "/" /\ nxt = "*" THEN [s EXCEPT !.in_block = TRUE, !.i = @ + 2]
        ELSE IF ch \in {DQ, BT}
            THEN [s EXCEPT !.in_str = TRUE, !.quote = ch, !.out = Append(@, ch), !.i = @ + 1]
        ELSE IF ch = SQ
            THEN [s EXCEPT !.in_char = TRUE, !.out = Append(@, ch), !.i = @ + 1]
        ELSE [s EXCEPT !.out = Append(@, ch), !.i = @ + 1]

\* CStep putting a space where a block comment ends
CStepSpaceForBlock(text, s) ==
    LET n   == Len(text)
        ch  == text[s.i + 1]
        nxt == IF s.i + 1 < n THEN text[s.i + 2] ELSE ""
    IN  IF s.in_line THEN
            IF ch = NL
            THEN [s EXCEPT !.in_line = FALSE, !.out = Append(@, ch), !.i = @ + 1]
            ELSE [s EXCEPT !.i = @ + 1]
        ELSE IF s.in_block THEN
            IF ch = "*" /\ nxt = "/"
            THEN [s EXCEPT !.in_block = FALSE, !.out = Append(@, " "), !.i = @ + 2]
            ELSE [s EXCEPT !.i = @ + 1]
        ELSE IF s.in_str \/ s.in_char THEN
            LET t == [s EXCEPT !.out = Append(@, ch), !.i = @ + 1]
            IN  IF s.escape THEN [t EXCEPT !.escape = FALSE]
                ELSE IF ch = BS THEN [t EXCEPT !.escape = TRUE]
                ELSE IF s.in_str /\ ch = s.quote THEN [t EXCEPT !.in_str = FALSE]
                ELSE IF s.in_char /\ ch = SQ THEN [t EXCEPT !.in_char = FALSE]
                ELSE t
        ELSE IF ch = "/" /\ nxt = "/" THEN [s EXCEPT !.in_line = TRUE, !.i = @ + 2]
        ELSE IF ch = "/" /\ nxt = "*" THEN [s EXCEPT !.in_block = TRUE, !.i = @ + 2]
        ELSE IF ch \in {DQ, BT}
            THEN [s EXCEPT !.in_str = TRUE, !.quote = ch, !.out = Append(@, ch), !.i = @ + 1]
        ELSE IF ch = SQ
            THEN [s EXCEPT !.in_char = TRUE, !.out = Append(@, ch), !.i = @ + 1]
        ELSE [s EXCEPT !.out = Append(@, ch), !.i = @ + 1]

\* One iteration of the while loop (requires s.i < Len(text))
CStep(text, s) ==
    LET n   == Len(text)
        ch  == text[s.i + 1]
        nxt == IF s.i + 1 < n THEN text[s.i + 2] ELSE ""
    IN  IF s.in_line THEN
            IF ch = NL
            THEN [s EXCEPT !.in_line = FALSE, !.out = Append(@, ch), !.i = @ + 1]
            ELSE [s EXCEPT !.i = @ + 1]
        ELSE IF s.in_block THEN
            IF ch = "*" /\ nxt = "/"
            THEN [s EXCEPT !.in_block = FALSE, !.i = @ + 2]
            ELSE [s EXCEPT !.i = @ + 1]
        ELSE IF s.in_str \/ s.in_char THEN
            LET t == [s EXCEPT !.out = Append(@, ch), !.i = @ + 1]
            IN  IF s.escape THEN [t EXCEPT !.escape = FALSE]
                ELSE IF ch = BS THEN [t EXCEPT !.escape = TRUE]
                ELSE IF s.in_str /\ ch = s.quote THEN [t EXCEPT !.in_str = FALSE]
                ELSE IF s.in_char /\ ch = SQ THEN [t EXCEPT !.in_char = FALSE]
                ELSE t
        ELSE IF ch = "/" /\ nxt = "/" THEN [s EXCEPT !.in_line = TRUE, !.i = @ + 2]
        ELSE IF ch = "/" /\ nxt = "*" THEN [s EXCEPT !.in_block = TRUE, !.i = @ + 2]
        ELSE IF ch \in {DQ, BT}
            THEN [s EXCEPT !.in_str = TRUE, !.quote = ch, !.out = Append(@, ch), !.i = @ + 1]
        ELSE IF ch = SQ
            THEN [s EXCEPT !.in_char = TRUE, !.out = Append(@, ch), !.i = @ + 1]
        ELSE [s EXCEPT !.out = Append(@, ch), !.i = @ + 1]

RECURSIVE CRun(_, _)
CRun(text, s) == IF s.i < Len(text) THEN CRun(text, CStep(text, s)) ELSE s

strip_c_like_comments(text) == CRun(text, CLocals(text)).out

----------------------------------------------------------------------------
(* strip_sql_comments *)

SqlLocals(text) ==
    [i |-> 0, out |-> <<>>, in_block |-> FALSE, in_str |-> FALSE,
     quote |-> "", escape |-> FALSE]

RECURSIVE SkipToNewline(_, _)
\* The inner while of the "--" branch: the first index >= i holding a newline, else n
SkipToNewline(text, i) ==
    IF i < Len(text) /\ text[i + 1] # NL THEN SkipToNewline(text, i + 1) ELSE i

\* SqlStep with the test for "/*" made before the test for an open string
SqlStepCommentInString(text, s) ==
    LET n   == Len(text)
        ch  == text[s.i + 1]
        nxt == IF s.i + 1 < n THEN text[s.i + 2] ELSE ""
    IN  IF s.in_block THEN
            IF ch = "*" /\ nxt = "/"
            THEN [s EXCEPT !.in_block = FALSE, !.i = @ + 2]
            ELSE [s EXCEPT !.i = @ + 1]
        ELSE IF ch = "/" /\ nxt = "*" THEN [s EXCEPT !.in_block = TRUE, !.i = @ + 2]
        ELSE IF s.in_str THEN
            LET t == [s EXCEPT !.out = Append(@, ch), !.i = @ + 1]
            IN  IF s.escape THEN [t EXCEPT !.escape = FALSE]
                ELSE IF ch = BS THEN [t EXCEPT !.escape = TRUE]
                ELSE IF ch = s.quote THEN [t EXCEPT !.in_str = FALSE]
                ELSE t
        ELSE IF ch \in {SQ, DQ}
            THEN [s EXCEPT !.in_str = TRUE, !.quote = ch, !.out = Append(@, ch), !.i = @ + 1]
        ELSE IF ch = "-" /\ nxt = "-" THEN [s EXCEPT !.i = SkipToNewline(text, s.i)]
        ELSE [s EXCEPT !.out = Append(@, ch), !.i = @ + 1]

\* One iteration of the while loop (requires s.i < Len(text))
SqlStep(text, s) ==
    LET n   == Len(text)
        ch  == text[s.i + 1]
        nxt == IF s.i + 1 < n THEN text[s.i + 2] ELSE ""
    IN  IF s.in_block THEN
            IF ch = "*" /\ nxt = "/"
            THEN [s EXCEPT !.in_block = FALSE, !.i = @ + 2]
            ELSE [s EXCEPT !.i = @ + 1]
        ELSE IF s.in_str THEN
            LET t == [s EXCEPT !.out = Append(@, ch), !.i = @ + 1]
            IN  IF s.escape THEN [t EXCEPT !.escape = FALSE]
                ELSE IF ch = BS THEN [t EXCEPT !.escape = TRUE]
                ELSE IF ch = s.quote THEN [t EXCEPT !.in_str = FALSE]
                ELSE t
        ELSE IF ch \in {SQ, DQ}
            THEN [s EXCEPT !.in_str = TRUE, !.quote = ch, !.out = Append(@, ch), !.i = @ + 1]
        ELSE IF ch = "/" /\ nxt = "*" THEN [s EXCEPT !.in_block = TRUE, !.i = @ + 2]
        ELSE IF ch = "-" /\ nxt = "-" THEN [s EXCEPT !.i = SkipToNewline(text, s.i)]
        ELSE [s EXCEPT !.out = Append(@, ch), !.i = @ + 1]

RECURSIVE SqlRun(_, _)
SqlRun(text, s) == IF s.i < Len(text) THEN SqlRun(text, SqlStep(text, s)) ELSE s

strip_sql_comments(text) == SqlRun(text, SqlLocals(text)).out

----------------------------------------------------------------------------
(* strip_hash_line_comments *)

\* The locals before the for loop: the lines to visit and the lines kept so far.
\* k counts the lines the for loop has taken; phase is "for" at the head of
\* the for loop and "while" inside the while loop of the current line.
HashLocals(text) ==
    [lines |-> SplitLines(UnixNewlines(text)), k |-> 0, out_lines |-> <<>>,
     phase |-> "for", line |-> <<>>,
     buf |-> <<>>, i |-> 0, in_str |-> FALSE, quote |-> "", escape |-> FALSE]

\* The for loop takes its next line and resets the per-line locals
\* (requires s.phase = "for" and s.k < Len(s.lines))
HashForStep(s) ==
    [s EXCEPT !.line = s.lines[s.k + 1], !.k = @ + 1, !.phase = "while",
              !.buf = <<>>, !.i = 0, !.in_str = FALSE, !.quote = "", !.escape = FALSE]

\* One iteration of the while loop, or its exit (the condition fails, or the
\* break at "#") followed by out_lines.append (requires s.phase = "while")
HashWhileStep(s) ==
    LET ch == s.line[s.i + 1]
    IN  IF s.i >= Len(s.line)
            THEN [s EXCEPT !.out_lines = Append(@, s.buf), !.phase = "for"]
        ELSE IF s.in_str THEN
            LET t == [s EXCEPT !.buf = Append(@, ch), !.i = @ + 1]
            IN  IF s.escape THEN [t EXCEPT !.escape = FALSE]
                ELSE IF ch = BS THEN [t EXCEPT !.escape = TRUE]
                ELSE IF ch = s.quote THEN [t EXCEPT !.in_str = FALSE]
                ELSE t
        ELSE IF ch \in {SQ, DQ}
            THEN [s EXCEPT !.in_str = TRUE, !.quote = ch, !.buf = Append(@, ch), !.i = @ + 1]
        ELSE IF ch = "#"
            THEN [s EXCEPT !.out_lines = Append(@, s.buf), !.phase = "for"]
        ELSE [s EXCEPT !.buf = Append(@, ch), !.i = @ + 1]

HashDone(s) == s.phase = "for" /\ s.k >= Len(s.lines)

HashStep(s) == IF s.phase = "for" THEN HashForStep(s) ELSE HashWhileStep(s)

RECURSIVE HashRun(_)
HashRun(s) == IF HashDone(s) THEN s ELSE HashRun(HashStep(s))

strip_hash_line_comments(text) == JoinLines(HashRun(HashLocals(text)).out_lines)

----------------------------------------------------------------------------
(* strip_python_comments *)

TripleSQ == <<SQ, SQ, SQ>>
TripleDQ == <<DQ, DQ, DQ>>

PyLocals(text) ==
    [lines |-> SplitLines(UnixNewlines(text)), k |-> 0, out_lines |-> <<>>,
     in_triple |-> FALSE, triple_quote |-> <<>>,
     phase |-> "for", line |-> <<>>,
     buf |-> <<>>, i |-> 0, in_str |-> FALSE, quote |-> "", escape |-> FALSE]

\* The loop over the two delimiters, three single quotes first: the first of
\* the two that occurs in the line opens a triple-quoted region and cuts the
\* line there
PyOpenTriple(s) ==
    LET iSQ == Find(s.line, TripleSQ, 0, Len(s.line))
        iDQ == Find(s.line, TripleDQ, 0, Len(s.line))
    IN  IF iSQ # -1
            THEN [s EXCEPT !.in_triple = TRUE, !.triple_quote = TripleSQ,
                           !.line = Slice(s.line, 0, iSQ)]
        ELSE IF iDQ # -1
            THEN [s EXCEPT !.in_triple = TRUE, !.triple_quote = TripleDQ,
                           !.line = Slice(s.line, 0, iDQ)]
        ELSE s

\* The for loop takes its next line: the docstring pass, then the reset of the
\* per-line locals; "continue" leaves the phase at "for"
\* (requires s.phase = "for" and s.k < Len(s.lines))
PyForStep(strip_docstrings, s) ==
    LET taken == [s EXCEPT !.line = s.lines[s.k + 1], !.k = @ + 1]
        enter(t) == [t EXCEPT !.phase = "while", !.buf = <<>>, !.i = 0,
                              !.in_str = FALSE, !.quote = "", !.escape = FALSE]
        end_idx == Find(taken.line, s.triple_quote, 0, Len(taken.line))
    IN  IF ~strip_docstrings THEN enter(taken)
        ELSE IF s.in_triple THEN
            IF end_idx # -1
            THEN enter(PyOpenTriple([taken EXCEPT
                        !.line = Slice(taken.line, end_idx + 3, Len(taken.line)),
                        !.in_triple = FALSE]))
            ELSE taken
        ELSE enter(PyOpenTriple(taken))

\* One iteration of the while loop, or its exit (the condition fails, or the
\* break at "#") followed by out_lines.append (requires s.phase = "while")
PyWhileStep(s) ==
    LET ch == s.line[s.i + 1]
    IN  IF s.i >= Len(s.line)
            THEN [s EXCEPT !.out_lines = Append(@, s.buf), !.phase = "for"]
        ELSE IF s.in_str THEN
            LET t == [s EXCEPT !.buf = Append(@, ch), !.i = @ + 1]
            IN  IF s.escape THEN [t EXCEPT !.escape = FALSE]
                ELSE IF ch = BS THEN [t EXCEPT !.escape = TRUE]
                ELSE IF ch = s.quote THEN [t EXCEPT !.in_str = FALSE]
                ELSE t
        ELSE IF ch \in {SQ, DQ}
            THEN [s EXCEPT !.in_str = TRUE, !.quote = ch, !.buf = Append(@, ch), !.i = @ + 1]
        ELSE IF ch = "#"
            THEN [s EXCEPT !.out_lines = Append(@, s.buf), !.phase = "for"]
        ELSE [s EXCEPT !.buf = Append(@, ch), !.i = @ + 1]

PyDone(s) == s.phase = "for" /\ s.k >= Len(s.lines)

PyStep(strip_docstrings, s) ==
    IF s.phase = "for" THEN PyForStep(strip_docstrings, s) ELSE PyWhileStep(s)

RECURSIVE PyRun(_, _)
PyRun(strip_docstrings, s) ==
    IF PyDone(s) THEN s ELSE PyRun(strip_docstrings, PyStep(strip_docstrings, s))

strip_python_comments(text, strip_docstrings) ==
    JoinLines(PyRun(strip_docstrings, PyLocals(text)).out_lines)

----------------------------------------------------------------------------
(* strip_html_comments *)

HtmlOpen == <<"<", "!", "-", "-">>
HtmlClose == <<"-", "-", ">">>

RECURSIVE HtmlSub(_, _)
\* re.sub(r"<!--.*?-->", "", text, flags=re.DOTALL) from index p on: the
\* leftmost "<!--" that has a "-->" after it is removed with everything up to
\* the first such "-->", and the substitution goes on behind it; an opener
\* with no "-->" after it matches nothing and stays
HtmlSub(text, p) ==
    LET n == Len(text)
        o == Find(text, HtmlOpen, p, n)
        c == IF o = -1 THEN -1 ELSE Find(text, HtmlClose, o + Len(HtmlOpen), n)
    IN  IF o = -1 \/ c = -1 THEN Slice(text, p, n)
        ELSE Slice(text, p, o) \o HtmlSub(text, c + Len(HtmlClose))

strip_html_comments(text) == HtmlSub(text, 0)

----------------------------------------------------------------------------
(* process_content *)

UpperCase == <<"A", "B", "C", "D", "E", "F", "G", "H", "I", "J", "K", "L", "M",
               "N", "O", "P", "Q", "R", "S", "T", "U", "V", "W", "X", "Y", "Z">>
LowerCase == <<"a", "b", "c", "d", "e", "f", "g", "h", "i", "j", "k", "l", "m",
               "n", "o", "p", "q", "r", "s", "t", "u", "v", "w", "x", "y", "z">>

\* ext.lower(), for extensions of ASCII characters
Lower(ext) ==
    [k \in 1 .. Len(ext) |->
        IF \E j \in 1 .. Len(UpperCase) : UpperCase[j] = ext[k]
        THEN LowerCase[CHOOSE j \in 1 .. Len(UpperCase) : UpperCase[j] = ext[k]]
        ELSE ext[k]]

PyExt == <<".", "p", "y">>
SqlExt == <<".", "s", "q", "l">>
PhpExt == <<".", "p", "h", "p">>
HtmlExts == {<<".", "h", "t", "m", "l">>, <<".", "h", "t", "m">>, <<".", "m", "d">>}
HashExts == {<<".", "s", "h">>, <<".", "b", "a", "s", "h">>, <<".", "z", "s", "h">>,
             <<".", "p", "s", "1">>}
CLikeExts == {<<".", "j", "s">>, <<".", "t", "s">>, <<".", "t", "s", "x">>,
              <<".", "j", "s", "x">>, <<".", "j", "a", "v", "a">>, <<".", "c">>,
              <<".", "c", "p", "p">>, <<".", "h">>, <<".", "h", "p", "p">>,
              <<".", "c", "s">>, <<".", "c", "s", "s">>, PhpExt,
              <<".", "r", "s">>, <<".", "g", "o">>}

\* process_content dispatching on ext as it is given, without lower()
process_content_cased(text, ext, strip_comments, strip_py_docstrings) ==
    IF ~strip_comments THEN text
    ELSE IF ext = PyExt THEN strip_python_comments(text, strip_py_docstrings)
    ELSE IF ext \in HtmlExts THEN strip_html_comments(text)
    ELSE IF ext = SqlExt THEN strip_sql_comments(text)
    ELSE IF ext \in HashExts THEN strip_hash_line_comments(text)
    ELSE IF ext \in CLikeExts THEN
        LET s == strip_c_like_comments(text)
        IN  IF ext = PhpExt THEN strip_hash_line_comments(s) ELSE s
    ELSE text

process_content(text, ext, strip_comments, strip_py_docstrings) ==
    LET e == Lower(ext)
    IN  IF ~strip_comments THEN text
        ELSE IF e = PyExt THEN strip_python_comments(text, strip_py_docstrings)
        ELSE IF e \in HtmlExts THEN strip_html_comments(text)
        ELSE IF e = SqlExt THEN strip_sql_comments(text)
        ELSE IF e \in HashExts THEN strip_hash_line_comments(text)
        ELSE IF e \in CLikeExts THEN
            LET s == strip_c_like_comments(text)
            IN  IF e = PhpExt THEN strip_hash_line_comments(s) ELSE s
        ELSE text

----------------------------------------------------------------------------
(* normalise_whitespace *)

\* The characters str.strip and str.rstrip remove (those the model's texts hold)
IsSpace(c) == c \in {" ", TAB, NL, CR, FF}

\* text.replace(BOM, "")
RemoveBom(s) == SelectSeq(s, LAMBDA c : c # BOM)

RECURSIVE ExpandFrom(_, _, _)
\* str.expandtabs from column col on: a tab becomes the spaces up to the next
\* multiple of tabsize (none when tabsize <= 0), a line break resets the column
ExpandFrom(s, tabsize, col) ==
    IF s = <<>> THEN <<>>
    ELSE IF s[1] = TAB THEN
        IF tabsize > 0
        THEN LET incr == tabsize - (col % tabsize)
             IN  [k \in 1 .. incr |-> " "] \o ExpandFrom(Tail(s), tabsize, col + incr)
        ELSE ExpandFrom(Tail(s), tabsize, col)
    ELSE IF s[1] \in {NL, CR} THEN <<s[1]>> \o ExpandFrom(Tail(s), tabsize, 0)
    ELSE <<s[1]>> \o ExpandFrom(Tail(s), tabsize, col + 1)

\* text.expandtabs(tabsize)
ExpandTabs(s, tabsize) == ExpandFrom(s, tabsize, 0)

RECURSIVE RStripWs(_)
\* s.rstrip()
RStripWs(s) ==
    IF s # <<>> /\ IsSpace(s[Len(s)]) THEN RStripWs(SubSeq(s, 1, Len(s) - 1)) ELSE s

RECURSIVE LStripWs(_)
LStripWs(s) == IF s # <<>> /\ IsSpace(s[1]) THEN LStripWs(Tail(s)) ELSE s

\* s.strip()
StripWs(s) == LStripWs(RStripWs(s))

RECURSIVE Collapse(_, _, _)
\* The loop over the lines: a blank line is kept while the run of blank lines
\* it belongs to is no longer than collapse_blank_to
Collapse(lines, collapse_blank_to, blank_run) ==
    IF lines = <<>> THEN <<>>
    ELSE IF lines[1] = <<>> THEN
        (IF blank_run + 1 <= collapse_blank_to THEN <<lines[1]>> ELSE <<>>)
            \o Collapse(Tail(lines), collapse_blank_to, blank_run + 1)
    ELSE <<lines[1]>> \o Collapse(Tail(lines), collapse_blank_to, 0)

\* The lines of the text after the three replacements and the tab expansion,
\* each stripped on the right, with the runs of blank lines collapsed
CollapsedLines(text, tab_spaces, collapse_blank_to) ==
    LET unix  == UnixNewlines(RemoveBom(text))
        split == SplitLines(ExpandTabs(unix, tab_spaces))
        lines == [k \in 1 .. Len(split) |-> RStripWs(split[k])]
    IN  Collapse(lines, collapse_blank_to, 0)

\* normalise_whitespace without the strip() of the joined text
normalise_whitespace_unstripped(text, tab_spaces, collapse_blank_to) ==
    LET out == JoinLines(CollapsedLines(text, tab_spaces, collapse_blank_to))
    IN  IF out # <<>> THEN out \o <<NL>> ELSE <<>>

normalise_whitespace(text, tab_spaces, collapse_blank_to) ==
    LET out == StripWs(JoinLines(CollapsedLines(text, tab_spaces, collapse_blank_to)))
    IN  IF out # <<>> THEN out \o <<NL>> ELSE <<>>

----------------------------------------------------------------------------
(* chunk_text *)

\* "\n===== FILE:", the text the splitter looks for
FileMarker == <<NL, "=", "=", "=", "=", "=", " ", "F", "I", "L", "E", ":">>

BlankLine == <<NL, NL>>

\* FitsWithin with the length test made strict
FitsStrictlyWithin(text, max_chunk_chars) ==
    max_chunk_chars <= 0 \/ Len(text) < max_chunk_chars

\* The test of the early return: no splitting for a budget that is not
\* positive or a text that fits in it
FitsWithin(text, max_chunk_chars) ==
    max_chunk_chars <= 0 \/ Len(text) <= max_chunk_chars

ChunkLocals == [chunks |-> <<>>, start |-> 0]

\* SplitEnd without the tests that the position found lies after start
SplitEndUnguarded(text, max_chunk_chars, start) ==
    LET end == IF start + max_chunk_chars < Len(text)
               THEN start + max_chunk_chars ELSE Len(text)
        marker == RFind(text, FileMarker, start, end)
        blank  == RFind(text, BlankLine, start, end)
    IN  IF end < Len(text) THEN
            IF marker = -1 THEN
                IF blank = -1 THEN end ELSE blank
            ELSE marker
        ELSE end

\* SplitEnd without the search for a file marker
SplitEndNoMarker(text, max_chunk_chars, start) ==
    LET end == IF start + max_chunk_chars < Len(text)
               THEN start + max_chunk_chars ELSE Len(text)
        blank  == RFind(text, BlankLine, start, end)
    IN  IF end < Len(text) THEN
            IF blank = -1 \/ blank <= start THEN end ELSE blank
        ELSE end

\* SplitEnd with the two searches in the other order: a blank line is taken
\* before a file marker
SplitEndBlankFirst(text, max_chunk_chars, start) ==
    LET end == IF start + max_chunk_chars < Len(text)
               THEN start + max_chunk_chars ELSE Len(text)
        marker == RFind(text, FileMarker, start, end)
        blank  == RFind(text, BlankLine, start, end)
    IN  IF end < Len(text) THEN
            IF blank = -1 \/ blank <= start THEN
                IF marker = -1 \/ marker <= start THEN end ELSE marker
            ELSE blank
        ELSE end

\* The end of the chunk that starts at start: the budget window's end, moved
\* back to the last file marker after start, else to the last blank line after
\* start, when the window ends before the text does
SplitEnd(text, max_chunk_chars, start) ==
    LET end == IF start + max_chunk_chars < Len(text)
               THEN start + max_chunk_chars ELSE Len(text)
        marker == RFind(text, FileMarker, start, end)
        blank  == RFind(text, BlankLine, start, end)
    IN  IF end < Len(text) THEN
            IF marker = -1 \/ marker <= start THEN
                IF blank = -1 \/ blank <= start THEN end ELSE blank
            ELSE marker
        ELSE end

\* ChunkOf losing the last character of the slice
ChunkOfShort(text, start, end) == StripWs(Slice(text, start, end - 1)) \o <<NL>>

\* The chunk cut from text[start:end]: stripped, and a newline added
ChunkOf(text, start, end) == StripWs(Slice(text, start, end)) \o <<NL>>

\* One iteration of the while loop (requires s.start < Len(text))
ChunkStep(text, max_chunk_chars, s) ==
    LET end == SplitEnd(text, max_chunk_chars, s.start)
    IN  [chunks |-> IF StripWs(Slice(text, s.start, end)) # <<>>
                    THEN Append(s.chunks, ChunkOf(text, s.start, end))
                    ELSE s.chunks,
         start |-> end]

RECURSIVE ChunkRun(_, _, _)
ChunkRun(text, max_chunk_chars, s) ==
    IF s.start < Len(text)
    THEN ChunkRun(text, max_chunk_chars, ChunkStep(text, max_chunk_chars, s))
    ELSE s

chunk_text(text, max_chunk_chars) ==
    IF FitsWithin(text, max_chunk_chars)
    THEN IF text # <<>> THEN <<text>> ELSE <<>>
    ELSE ChunkRun(text, max_chunk_chars, ChunkLocals).chunks

----------------------------------------------------------------------------
(* main: the combined document *)

RECURSIVE Concat(_)
\* "".join(parts)
Concat(parts) == IF parts = <<>> THEN <<>> ELSE parts[1] \o Concat(Tail(parts))

\* SEPARATOR.format(relpath=...)
Header(relpath) ==
    <<NL>> \o FileMarker \o <<" ">> \o relpath
        \o <<" ", "=", "=", "=", "=", "=", NL, NL>>

RECURSIVE CollectedParts(_, _, _)
\* The loop over the files: the header and the normalised text of every file
\* whose normalised text is not empty.  A file is [relpath, processed].
CollectedParts(files, tab_spaces, collapse_blank_to) ==
    IF files = <<>> THEN <<>>
    ELSE LET normalised == normalise_whitespace(files[1].processed, tab_spaces,
                                                collapse_blank_to)
         IN  (IF normalised = <<>> THEN <<>>
              ELSE <<Header(files[1].relpath) \o normalised>>)
                 \o CollectedParts(Tail(files), tab_spaces, collapse_blank_to)

\* "".join(collected_parts).strip() + ("\n" if collected_parts else "")
Combined(collected_parts) ==
    StripWs(Concat(collected_parts)) \o (IF collected_parts # <<>> THEN <<NL>> ELSE <<>>)

----------------------------------------------------------------------------
(* The scanners as a state machine: one action per loop iteration, and one  *)
(* for the substitution of strip_html_comments                              *)

\* The literal-aware scanners
Scanners == {"c", "sql", "hash", "py"}

Alphabet(f) ==
    CASE f = "c" -> CAlphabet
      [] f = "sql" -> SqlAlphabet
      [] f = "hash" -> HashAlphabet
      [] f = "py" -> PyAlphabet

\* The pieces the longer texts given to a scanner are made of
Tokens(f) ==
    CASE f = "c" -> {<<"/">>, <<"/", "/">>, <<"/", "*">>, <<"*", "/">>, <<NL>>, <<"a">>}
      [] f = "sql" -> {<<"-">>, <<"-", "-">>, <<"/", "*">>, <<"*", "/">>, <<NL>>, <<"a">>}
      [] f = "hash" -> {<<"#">>, <<NL>>, <<"a">>}
      [] f = "py" -> {TripleSQ, TripleDQ, <<"#">>, <<NL>>, <<"a">>}
      [] f = "html" -> {HtmlOpen, HtmlClose, <<"-">>, <<NL>>, <<"a">>}

RECURSIVE Phrases(_, _)
\* Every concatenation of at most n tokens of T
Phrases(T, n) ==
    IF n = 0 THEN {<<>>}
    ELSE {p \o t : p \in Phrases(T, n - 1), t \in T \cup {<<>>}}

InitScan ==
    /\ fn \in Scanners \cup {"html"}
    /\ arg \in CASE fn = "py" ->
                     [text : Texts(PyAlphabet, MaxLenPy) \cup Phrases(Tokens(fn), MaxPhrase),
                      strip_docstrings : BOOLEAN]
                [] fn = "html" -> [text : Phrases(Tokens(fn), MaxPhrase)]
                [] OTHER ->
                     [text : Texts(Alphabet(fn), MaxLen) \cup Phrases(Tokens(fn), MaxPhrase)]
    /\ st = CASE fn = "c" -> CLocals(arg.text)
              [] fn = "sql" -> SqlLocals(arg.text)
              [] fn = "hash" -> HashLocals(arg.text)
              [] fn = "py" -> PyLocals(arg.text)
              [] fn = "html" -> <<>>
    /\ pc = IF fn = "html" THEN "call" ELSE "loop"
    /\ ret = <<>>
    /\ main = NoMain

\* strip_html_comments: the one call of re.sub
HtmlReturn ==
    /\ fn = "html" /\ pc = "call"
    /\ ret' = strip_html_comments(arg.text)
    /\ pc' = "done"
    /\ UNCHANGED <<fn, arg, st, main>>

CLoop ==
    /\ fn = "c" /\ pc = "loop" /\ st.i < Len(arg.text)
    /\ st' = CStep(arg.text, st)
    /\ UNCHANGED <<fn, arg, pc, ret, main>>

CReturn ==
    /\ fn = "c" /\ pc = "loop" /\ st.i >= Len(arg.text)
    /\ ret' = st.out
    /\ pc' = "done"
    /\ UNCHANGED <<fn, arg, st, main>>

SqlLoop ==
    /\ fn = "sql" /\ pc = "loop" /\ st.i < Len(arg.text)
    /\ st' = SqlStep(arg.text, st)
    /\ UNCHANGED <<fn, arg, pc, ret, main>>

SqlReturn ==
    /\ fn = "sql" /\ pc = "loop" /\ st.i >= Len(arg.text)
    /\ ret' = st.out
    /\ pc' = "done"
    /\ UNCHANGED <<fn, arg, st, main>>

HashFor ==
    /\ fn = "hash" /\ pc = "loop" /\ st.phase = "for" /\ ~HashDone(st)
    /\ st' = HashForStep(st)
    /\ UNCHANGED <<fn, arg, pc, ret, main>>

HashWhile ==
    /\ fn = "hash" /\ pc = "loop" /\ st.phase = "while"
    /\ st' = HashWhileStep(st)
    /\ UNCHANGED <<fn, arg, pc, ret, main>>

HashReturn ==
    /\ fn = "hash" /\ pc = "loop" /\ HashDone(st)
    /\ ret' = JoinLines(st.out_lines)
    /\ pc' = "done"
    /\ UNCHANGED <<fn, arg, st, main>>

PyFor ==
    /\ fn = "py" /\ pc = "loop" /\ st.phase = "for" /\ ~PyDone(st)
    /\ st' = PyForStep(arg.strip_docstrings, st)
    /\ UNCHANGED <<fn, arg, pc, ret, main>>

PyWhile ==
    /\ fn = "py" /\ pc = "loop" /\ st.phase = "while"
    /\ st' = PyWhileStep(st)
    /\ UNCHANGED <<fn, arg, pc, ret, main>>

PyReturn ==
    /\ fn = "py" /\ pc = "loop" /\ PyDone(st)
    /\ ret' = JoinLines(st.out_lines)
    /\ pc' = "done"
    /\ UNCHANGED <<fn, arg, st, main>>

NextScan ==
    \/ CLoop \/ CReturn
    \/ SqlLoop \/ SqlReturn
    \/ HashFor \/ HashWhile \/ HashReturn
    \/ PyFor \/ PyWhile \/ PyReturn
    \/ HtmlReturn

SpecScan == InitScan /\ [][NextScan]_vars

----------------------------------------------------------------------------
(* normalise_whitespace as a state machine: the function is applied to a    *)
(* text, and then to its own result                                         *)

NormAlphabet == {BOM, CR, NL, TAB, FF, " ", "a"}

InitNorm ==
    /\ fn = "normalise_whitespace"
    /\ arg \in [text : Texts(NormAlphabet, MaxNormLen),
                tab_spaces : 0 .. MaxTabSpaces,
                collapse_blank_to : 0 .. MaxCollapse]
    /\ st = [calls |-> 0]
    /\ pc = "call"
    /\ ret = <<>>
    /\ main = NoMain

Normalise ==
    /\ fn = "normalise_whitespace" /\ pc = "call"
    /\ ret' = normalise_whitespace(arg.text, arg.tab_spaces, arg.collapse_blank_to)
    /\ st' = [calls |-> st.calls + 1]
    /\ pc' = "done"
    /\ UNCHANGED <<fn, arg, main>>

\* The result is given back as the text of a second call
NormaliseAgain ==
    /\ fn = "normalise_whitespace" /\ pc = "done" /\ st.calls = 1
    /\ arg' = [arg EXCEPT !.text = ret]
    /\ pc' = "call"
    /\ UNCHANGED <<fn, st, ret, main>>

NextNorm == Normalise \/ NormaliseAgain

SpecNorm == InitNorm /\ [][NextNorm]_vars

----------------------------------------------------------------------------
(* chunk_text as a state machine, called on a text of its own or by main    *)

\* The pieces the texts given to chunk_text directly are made of
DocTokens == {<<"a">>, <<" ">>, <<NL>>, FileMarker}

RECURSIVE Docs(_)
\* Every concatenation of at most n tokens
Docs(n) ==
    IF n = 0 THEN {<<>>}
    ELSE {d \o t : d \in Docs(n - 1), t \in DocTokens \cup {<<>>}}

\* The texts of the files main is given, before normalisation
RawContents == {<<>>, <<"x">>, <<"x", NL, NL, "x">>, <<TAB, "x", " ", CR, NL>>}

\* The relative path of the k-th file
RelPath(k) == [j \in 1 .. k |-> "p"]

FileLists ==
    UNION {[1 .. n -> RawContents] : n \in 1 .. MaxFiles}

InitChunk ==
    /\ st = <<>>
    /\ ret = <<>>
    /\ \/ /\ fn = "chunk_text"
          /\ arg \in [text : Docs(MaxTokens), max_chunk_chars : 0 .. MaxBudget]
          /\ pc = "call"
          /\ main = NoMain
       \/ /\ fn = "main"
          /\ arg \in [chunk_chars : 1 .. MaxChunkChars, tab_spaces : {2},
                      collapse_blank_to : {1}]
          /\ \E raws \in FileLists :
                main = [active |-> TRUE,
                        files |-> [k \in 1 .. Len(raws) |->
                                     [relpath |-> RelPath(k), processed |-> raws[k]]],
                        collected_parts |-> <<>>]
          /\ pc = "collect"

\* main: the loop over the files and the join; chunk_text is called on the
\* combined document unless it is empty
MainCombine ==
    /\ fn = "main" /\ pc = "collect"
    /\ LET parts == CollectedParts(main.files, arg.tab_spaces, arg.collapse_blank_to)
           combined == Combined(parts)
       IN  /\ main' = [main EXCEPT !.collected_parts = parts]
           /\ IF combined = <<>>
              THEN /\ pc' = "done"
                   /\ UNCHANGED <<fn, arg>>
              ELSE /\ fn' = "chunk_text"
                   /\ arg' = [text |-> combined, max_chunk_chars |-> arg.chunk_chars]
                   /\ pc' = "call"
    /\ UNCHANGED <<st, ret>>

\* chunk_text: the early return, or the locals of the loop
ChunkEnter ==
    /\ fn = "chunk_text" /\ pc = "call"
    /\ IF FitsWithin(arg.text, arg.max_chunk_chars)
       THEN /\ ret' = IF arg.text # <<>> THEN <<arg.text>> ELSE <<>>
            /\ pc' = "done"
            /\ UNCHANGED st
       ELSE /\ st' = ChunkLocals
            /\ pc' = "loop"
            /\ UNCHANGED ret
    /\ UNCHANGED <<fn, arg, main>>

ChunkLoop ==
    /\ fn = "chunk_text" /\ pc = "loop" /\ st.start < Len(arg.text)
    /\ st' = ChunkStep(arg.text, arg.max_chunk_chars, st)
    /\ UNCHANGED <<fn, arg, pc, ret, main>>

ChunkReturn ==
    /\ fn = "chunk_text" /\ pc = "loop" /\ st.start >= Len(arg.text)
    /\ ret' = st.chunks
    /\ pc' = "done"
    /\ UNCHANGED <<fn, arg, st, main>>

NextChunk == MainCombine \/ ChunkEnter \/ ChunkLoop \/ ChunkReturn

SpecChunk == InitChunk /\ [][NextChunk]_vars

----------------------------------------------------------------------------
(* process_content as a state machine: one call *)

\* The pieces the texts given to process_content are made of: the comment
\* openers of the scanners it dispatches to
ContentTokens ==
    {<<"#">>, <<"/", "/">>, <<"-", "-">>, HtmlOpen, HtmlClose, TripleSQ, <<NL>>, <<"a">>}

\* One extension of every branch of the dispatch, one that is not mapped, and
\* the empty suffix of a file without extension
BaseExts ==
    {PyExt, <<".", "m", "d">>, SqlExt, <<".", "s", "h">>, <<".", "j", "s">>, PhpExt,
     <<".", "t", "x", "t">>, <<>>}

\* The character c in upper case
UpperChar(c) ==
    IF \E j \in 1 .. Len(LowerCase) : LowerCase[j] = c
    THEN UpperCase[CHOOSE j \in 1 .. Len(LowerCase) : LowerCase[j] = c]
    ELSE c

\* ext in every mix of upper and lower case
Casings(ext) ==
    {e \in [1 .. Len(ext) -> {ext[k] : k \in 1 .. Len(ext)}
                                 \cup {UpperChar(ext[k]) : k \in 1 .. Len(ext)}] :
        \A k \in 1 .. Len(ext) : e[k] \in {ext[k], UpperChar(ext[k])}}

Exts == UNION {Casings(e) : e \in BaseExts}

InitContent ==
    /\ fn = "process_content"
    /\ arg \in [text : Phrases(ContentTokens, MaxContentTokens),
                ext : Exts,
                strip_comments : BOOLEAN,
                strip_py_docstrings : BOOLEAN]
    /\ st = <<>>
    /\ pc = "call"
    /\ ret = <<>>
    /\ main = NoMain

ProcessContent ==
    /\ fn = "process_content" /\ pc = "call"
    /\ ret' = process_content(arg.text, arg.ext, arg.strip_comments,
                              arg.strip_py_docstrings)
    /\ pc' = "done"
    /\ UNCHANGED <<fn, arg, st, main>>

NextContent == ProcessContent

SpecContent == InitContent /\ [][NextContent]_vars

----------------------------------------------------------------------------
(* Vocabulary of the scanner claims *)

\* The quote characters that open a string literal in scanner f
StringQuotes(f) == IF f = "c" THEN {DQ, BT} ELSE {SQ, DQ}

\* The comment openers of scanner f (for Python, the triple quotes too)
Openers(f) ==
    CASE f = "c" -> {<<"/", "/">>, <<"/", "*">>}
      [] f = "sql" -> {<<"-", "-">>, <<"/", "*">>}
      [] f = "hash" -> {<<"#">>}
      [] f = "py" -> {<<"#">>, TripleSQ, TripleDQ}

Contains(s, pat) == Find(s, pat, 0, Len(s)) # -1

\* Text that leaves every scanner in normal mode: ordinary characters and newlines
Plain(s) == \A k \in 1 .. Len(s) : s[k] \in {"a", NL}

\* A string literal of scanner f without escapes, opened and closed on one line
SimpleLiteral(f, lit) ==
    /\ Len(lit) >= 2
    /\ lit[1] \in StringQuotes(f)
    /\ lit[Len(lit)] = lit[1]
    /\ \A k \in 2 .. Len(lit) - 1 : lit[k] \notin {lit[1], BS, NL, CR}

\* The result of scanner f, with the arguments a of the call, on text t
Scan(f, a, t) ==
    CASE f = "c" -> strip_c_like_comments(t)
      [] f = "sql" -> strip_sql_comments(t)
      [] f = "hash" -> strip_hash_line_comments(t)
      [] f = "py" -> strip_python_comments(t, a.strip_docstrings)

\* The scanner is about to read a character: the character it reads
Reading ==
    /\ pc = "loop"
    /\ IF fn \in {"c", "sql"} THEN st.i < Len(arg.text)
       ELSE st.phase = "while" /\ st.i < Len(st.line)

Ch == IF fn \in {"c", "sql"} THEN arg.text[st.i + 1] ELSE st.line[st.i + 1]

\* A string or char literal is open
LiteralOpen == IF fn = "c" THEN st.in_str \/ st.in_char ELSE st.in_str

\* The quote character that matches the open literal
Matching == IF fn = "c" /\ st.in_char THEN SQ ELSE st.quote

----------------------------------------------------------------------------
(* C1: in every literal-aware scanner, a string literal that is opened in   *)
(* normal mode and closed on the same line, and whose body contains a       *)
(* comment opener of that syntax, is emitted unchanged, and the text after  *)
(* its closing quote is scanned in normal mode: the result for              *)
(* pre \o lit \o post is pre \o lit \o (the result for post).                *)
C1_LiteralWithOpenerSurvives ==
    (pc = "done" /\ fn \in Scanners) =>
        \A a \in 0 .. Len(arg.text), b \in 0 .. Len(arg.text) :
            LET pre  == Slice(arg.text, 0, a)
                lit  == Slice(arg.text, a, b)
                post == Slice(arg.text, b, Len(arg.text))
            IN  ( /\ a < b
                  /\ Plain(pre)
                  /\ SimpleLiteral(fn, lit)
                  /\ \E o \in Openers(fn) : Contains(Slice(lit, 1, Len(lit) - 1), o) )
                => ret = pre \o lit \o Scan(fn, arg, post)

----------------------------------------------------------------------------
(* C2: while a string or char literal is open, the character read closes it *)
(* exactly when it is the matching quote and escape is not pending; a quote *)
(* read while escape is pending never closes it.  Escape is pending for the *)
(* one character after a backslash read while escape was not pending.       *)
C2_OnlyUnescapedQuoteCloses ==
    [][ (Reading /\ LiteralOpen) =>
            /\ LiteralOpen' <=> ~(Ch = Matching /\ ~st.escape)
            /\ st'.escape <=> (Ch = BS /\ ~st.escape) ]_vars

\* A quote has just been read after an escaping backslash and the literal is
\* still open
C2_Witness ==
    /\ pc = "loop" /\ LiteralOpen
    /\ IF fn \in {"c", "sql"}
       THEN st.i >= 3 /\ arg.text[st.i] = Matching /\ arg.text[st.i - 1] = BS
       ELSE st.phase = "while" /\ st.i >= 3 /\ st.line[st.i] = Matching
            /\ st.line[st.i - 1] = BS

----------------------------------------------------------------------------
(* C10: in every literal-aware scanner, a string literal that is opened in  *)
(* normal mode and never closed (no later occurrence of its quote) is kept  *)
(* verbatim to the end of the input, across newlines: the result is the     *)
(* input.  Carriage returns, which two of the scanners rewrite, are left    *)
(* out of the remainder.                                                    *)
C10_UnterminatedStringKeptToEnd ==
    (pc = "done" /\ fn \in Scanners) =>
        \A k \in 1 .. Len(arg.text) :
            LET pre  == Slice(arg.text, 0, k - 1)
                rest == Slice(arg.text, k, Len(arg.text))
            IN  ( /\ Plain(pre)
                  /\ arg.text[k] \in StringQuotes(fn)
                  /\ \A j \in 1 .. Len(rest) : rest[j] \notin {arg.text[k], CR} )
                => ret = arg.text

----------------------------------------------------------------------------
(* Vocabulary of the chunk_text claims *)

\* chunk_text has returned
Returned == fn = "chunk_text" /\ pc = "done"

\* chunk_text took the early return (otherwise its loop ran)
TookEarlyReturn == FitsWithin(arg.text, arg.max_chunk_chars)

RECURSIVE SkipSpace(_, _)
\* The first index >= p of doc that holds no whitespace, else Len(doc)
SkipSpace(doc, p) ==
    IF p < Len(doc) /\ IsSpace(doc[p + 1]) THEN SkipSpace(doc, p + 1) ELSE p

RECURSIVE Rejoins(_, _, _)
\* From index p on, doc is the trimmed chunks in order, with nothing but
\* whitespace before, between and after them
Rejoins(doc, p, chunks) ==
    IF chunks = <<>> THEN SkipSpace(doc, p) = Len(doc)
    ELSE LET core == StripWs(chunks[1])
             q    == SkipSpace(doc, p)
         IN  /\ At(doc, core, q)
             /\ Rejoins(doc, q + Len(core), Tail(chunks))

\* The marker line of the k-th file, with the newline that ends it
MarkerLine(k) ==
    LET h == Header(RelPath(k)) IN SubSeq(h, 3, Len(h) - 1)

StartsWithMarkerLine(chunk) ==
    \E k \in 1 .. Len(main.files) : At(chunk, MarkerLine(k), 0)

\* Position p lies strictly inside a marker line of text
InsideMarkerLine(text, p) ==
    \E k \in 1 .. Len(main.files), m \in 0 .. Len(text) :
        /\ At(text, MarkerLine(k), m)
        /\ m < p /\ p < m + Len(MarkerLine(k))

\* The length of the largest rendered file block (header and content)
LargestBlock ==
    LET sizes == {Len(main.collected_parts[k]) : k \in 1 .. Len(main.collected_parts)}
    IN  CHOOSE n \in sizes : \A m \in sizes : m <= n

----------------------------------------------------------------------------
(* C3: for every document and every positive budget, every chunk chunk_text *)
(* returns is at most the budget long.                                      *)
C3_ChunkWithinBudget ==
    (Returned /\ arg.max_chunk_chars > 0) =>
        \A k \in 1 .. Len(ret) : Len(ret[k]) <= arg.max_chunk_chars

----------------------------------------------------------------------------
(* C4: every iteration of the loop of chunk_text moves start strictly       *)
(* forward, and never past the end of the text, so the loop ends: whatever  *)
(* state the loop is in, the iteration it is about to run leaves start      *)
(* greater than it is.                                                      *)
C4_StartStrictlyAdvances ==
    (fn = "chunk_text" /\ pc = "loop") =>
        /\ st.start <= Len(arg.text)
        /\ st.start < Len(arg.text) =>
              LET next == ChunkStep(arg.text, arg.max_chunk_chars, st)
              IN  st.start < next.start /\ next.start <= Len(arg.text)

\* The first iteration found no marker and no blank line in its window and
\* cut at the budget; the loop goes on from there
C4_Witness ==
    /\ fn = "chunk_text" /\ pc = "loop"
    /\ st.start = arg.max_chunk_chars /\ st.start < Len(arg.text)
    /\ RFind(arg.text, FileMarker, 0, arg.max_chunk_chars) = -1
    /\ RFind(arg.text, BlankLine, 0, arg.max_chunk_chars) = -1

----------------------------------------------------------------------------
(* C5, as claimed: the chunks chunk_text returns, in order, are the         *)
(* document up to trimming, and each chunk is its trimmed region with one   *)
(* added trailing newline.                                                  *)
C5_EveryChunkTrimmedPlusNewline ==
    Returned =>
        /\ Rejoins(arg.text, 0, ret)
        /\ \A k \in 1 .. Len(ret) : ret[k] = StripWs(ret[k]) \o <<NL>>

(* C5, amended: the chunks chunk_text returns, in order, are the document   *)
(* up to trimming: the document is the trimmed chunks one after the other   *)
(* with only whitespace before, between and after them, so no character     *)
(* other than whitespace at a chunk's edge is lost, repeated or moved.  A   *)
(* chunk cut by the loop is its trimmed region and one added newline; the   *)
(* early return gives the document itself, untrimmed and with no newline    *)
(* added.                                                                   *)
C5_ChunksRejoinToDocument ==
    Returned =>
        /\ Rejoins(arg.text, 0, ret)
        /\ IF TookEarlyReturn
           THEN ret = IF arg.text = <<>> THEN <<>> ELSE <<arg.text>>
           ELSE \A k \in 1 .. Len(ret) :
                    /\ StripWs(ret[k]) # <<>>
                    /\ ret[k] = StripWs(ret[k]) \o <<NL>>

\* The loop has cut a document into several chunks, and whitespace of the
\* document is missing from them
C5_Witness ==
    /\ Returned /\ ~TookEarlyReturn /\ Len(ret) >= 2
    /\ Len(Concat(ret)) < Len(arg.text)

----------------------------------------------------------------------------
(* C6: for a combined document built by main and a budget at least as large *)
(* as the largest file block, no split point of chunk_text lies inside a    *)
(* marker line, and every chunk begins with a complete marker line.         *)
C6_ChunksStartAtMarkers ==
    (main.active /\ fn = "chunk_text" /\ pc \in {"loop", "done"}
       /\ arg.max_chunk_chars >= LargestBlock) =>
        /\ pc = "loop" =>
              /\ ~InsideMarkerLine(arg.text, st.start)
              /\ \A k \in 1 .. Len(st.chunks) : StartsWithMarkerLine(st.chunks[k])
        /\ pc = "done" =>
              \A k \in 1 .. Len(ret) : StartsWithMarkerLine(ret[k])

\* Three file blocks, a budget that holds the largest of them but not the
\* document, and one chunk per block
C6_Witness ==
    /\ main.active /\ Returned
    /\ Len(main.collected_parts) = 3
    /\ arg.max_chunk_chars >= LargestBlock
    /\ arg.max_chunk_chars < Len(arg.text)
    /\ Len(ret) = 3

----------------------------------------------------------------------------
(* C7: for every document and every budget (here: every positive budget),  *)
(* every chunk chunk_text returns is non-empty after trimming, the early    *)
(* return included.                                                         *)
C7_ChunksNonEmptyTrimmed ==
    (Returned /\ arg.max_chunk_chars > 0) =>
        \A k \in 1 .. Len(ret) : StripWs(ret[k]) # <<>>

----------------------------------------------------------------------------
(* C8: chunk_text returns no chunk for the empty document and exactly one   *)
(* for a non-empty document no longer than the budget; it returns more than *)
(* one only for a document longer than a positive budget.                   *)
C8_ChunkCount ==
    Returned =>
        /\ arg.text = <<>> => Len(ret) = 0
        /\ (arg.text # <<>> /\ Len(arg.text) <= arg.max_chunk_chars) => Len(ret) = 1
        /\ Len(ret) > 1 => (arg.max_chunk_chars > 0 /\ Len(arg.text) > arg.max_chunk_chars)

\* A non-empty document exactly as long as the budget came back as one chunk
C8_Witness ==
    /\ Returned /\ arg.text # <<>>
    /\ Len(arg.text) = arg.max_chunk_chars
    /\ Len(ret) = 1

----------------------------------------------------------------------------
(* C9: normalise_whitespace is idempotent: applied to its own result, with  *)
(* the same tab width and blank-line limit, it returns that result.         *)
C9_NormaliseIdempotent ==
    (fn = "normalise_whitespace" /\ pc = "done" /\ st.calls = 2) => ret = arg.text

\* The second call has returned, for a text the first call changed into a
\* text of several lines
C9_Witness ==
    /\ fn = "normalise_whitespace" /\ pc = "done" /\ st.calls = 2
    /\ Contains(ret, <<NL, NL>>)
    /\ Len(ret) >= 4

----------------------------------------------------------------------------
(* Vocabulary of the comment claims *)

BlockOpen == <<"/", "*">>
BlockClose == <<"*", "/">>

\* The line-comment opener of the C-like or the SQL scanner
LineOpen == IF fn = "c" THEN <<"/", "/">> ELSE <<"-", "-">>

\* The C-like or SQL scanner is in normal mode: no comment and no literal is open
NormalMode ==
    IF fn = "c" THEN ~(st.in_line \/ st.in_block \/ st.in_str \/ st.in_char)
    ELSE ~(st.in_block \/ st.in_str)

\* The C-like or SQL scanner is about to read, in normal mode, the opener pat
OpensHere(pat) ==
    /\ fn \in {"c", "sql"} /\ pc = "loop"
    /\ NormalMode
    /\ At(arg.text, pat, st.i)

----------------------------------------------------------------------------
(* C11: a block comment that is opened and never closed drops the rest of   *)
(* the input: the result is the scanner's result for the text before the    *)
(* opener.  For the C-like and SQL scanners the opener is one read in       *)
(* normal mode with no closer behind it; for strip_html_comments it is the  *)
(* first opener of the text, with no closer behind it.                      *)
C11_UnterminatedBlockDropsRest ==
    /\ ( /\ OpensHere(BlockOpen)
         /\ Find(arg.text, BlockClose, st.i + Len(BlockOpen), Len(arg.text)) = -1 )
       => Scan(fn, arg, arg.text) = Scan(fn, arg, Slice(arg.text, 0, st.i))
    /\ (fn = "html" /\ pc = "done") =>
          LET a == Find(arg.text, HtmlOpen, 0, Len(arg.text))
          IN  ( /\ a # -1
                /\ Find(arg.text, HtmlClose, a + Len(HtmlOpen), Len(arg.text)) = -1 )
              => ret = strip_html_comments(Slice(arg.text, 0, a))

----------------------------------------------------------------------------
(* Vocabulary of the docstring claim *)

\* The characters of s other than line breaks
Letters(s) == SelectSeq(s, LAMBDA c : c # NL)

\* text is pre, a triple-quoted region from index a to the delimiter at index
\* b, and post, with nothing but ordinary characters and newlines before, in
\* and after the region
PlainRegion(text, a, b) ==
    /\ a + 3 <= b
    /\ \E d \in {TripleSQ, TripleDQ} : At(text, d, a) /\ At(text, d, b)
    /\ Plain(Slice(text, 0, a))
    /\ Plain(Slice(text, a + 3, b))
    /\ Plain(Slice(text, b + 3, Len(text)))

----------------------------------------------------------------------------
(* C12: for a text made of ordinary text, one triple-quoted region of       *)
(* ordinary text and ordinary text after it, strip_python_comments with     *)
(* docstring stripping removes the region and keeps what is before and      *)
(* after it, whether the region closes on the line it opens on or on a      *)
(* later line (line breaks aside); without docstring stripping it returns   *)
(* the text.                                                                *)
C12_TripleQuotedRegionRemoved ==
    (fn = "py" /\ pc = "done") =>
        \A a \in 0 .. Len(arg.text), b \in 0 .. Len(arg.text) :
            PlainRegion(arg.text, a, b) =>
                IF arg.strip_docstrings
                THEN Letters(ret) = Letters(Slice(arg.text, 0, a)
                                              \o Slice(arg.text, b + 3, Len(arg.text)))
                ELSE ret = arg.text

----------------------------------------------------------------------------
(* C13: for a combined document built by main, a file block (its marker     *)
(* line and its content) longer than the budget comes out whole as one      *)
(* chunk, and no chunk other than such a block is longer than the budget.   *)
(* Both are stated up to the trimming of a chunk and its added newline.     *)
C13_OversizedBlockEmittedWhole ==
    (main.active /\ Returned) =>
        LET Block(k) == StripWs(main.collected_parts[k])
            blocks   == 1 .. Len(main.collected_parts)
        IN  /\ \A k \in blocks :
                  Len(Block(k)) > arg.max_chunk_chars =>
                      \E j \in 1 .. Len(ret) : StripWs(ret[j]) = Block(k)
            /\ \A j \in 1 .. Len(ret) :
                  Len(StripWs(ret[j])) > arg.max_chunk_chars =>
                      \E k \in blocks : StripWs(ret[j]) = Block(k)

----------------------------------------------------------------------------
(* C14: process_content returns the text it is given when comment stripping *)
(* is disabled or the extension, in lower case, is none of those mapped to  *)
(* a scanner; and its result for an extension is its result for the         *)
(* extension in lower case.                                                 *)
C14_PassThroughAndCaseInsensitive ==
    (fn = "process_content" /\ pc = "done") =>
        /\ ( \/ ~arg.strip_comments
             \/ Lower(arg.ext) \notin {PyExt, SqlExt} \cup HtmlExts \cup HashExts \cup CLikeExts )
           => ret = arg.text
        /\ ret = process_content(arg.text, Lower(arg.ext), arg.strip_comments,
                                 arg.strip_py_docstrings)

\* A text given with an extension that is not in lower case has lost a comment
C14_Witness ==
    /\ fn = "process_content" /\ pc = "done"
    /\ arg.ext # Lower(arg.ext)
    /\ ret # arg.text

----------------------------------------------------------------------------
(* Vocabulary of the split-point claim *)

\* The positions after start at which pat lies wholly inside the budget
\* window of the iteration the loop of chunk_text is about to run
Qualifying(pat) ==
    {p \in st.start + 1 .. st.start + arg.max_chunk_chars - Len(pat) :
        At(arg.text, pat, p)}

Rightmost(S) == CHOOSE p \in S : \A q \in S : q <= p

----------------------------------------------------------------------------
(* C15: an iteration of chunk_text whose budget window ends before the text *)
(* does moves start to the right-most file marker that lies wholly inside   *)
(* the window after start; if there is none, to the right-most blank line   *)
(* that does; if there is none, to start + budget.                          *)
C15_SplitPriority ==
    [][ ( /\ fn = "chunk_text" /\ pc = "loop"
          /\ st.start + arg.max_chunk_chars < Len(arg.text) )
        => st'.start =
              IF Qualifying(FileMarker) # {} THEN Rightmost(Qualifying(FileMarker))
              ELSE IF Qualifying(BlankLine) # {} THEN Rightmost(Qualifying(BlankLine))
              ELSE st.start + arg.max_chunk_chars ]_vars

\* The first iteration has cut at a file marker although a blank line lay
\* further right in its window
C15_Witness ==
    /\ fn = "chunk_text" /\ pc = "loop"
    /\ arg.max_chunk_chars < Len(arg.text)
    /\ Len(st.chunks) = 1
    /\ At(arg.text, FileMarker, st.start)
    /\ \E q \in st.start + 1 .. arg.max_chunk_chars - Len(BlankLine) :
           At(arg.text, BlankLine, q)

----------------------------------------------------------------------------
(* Vocabulary of the mode claim *)

RECURSIVE BackslashRun(_, _)
\* The number of backslashes in a row that end the first i characters of text
BackslashRun(text, i) ==
    IF i > 0 /\ text[i] = BS THEN 1 + BackslashRun(text, i - 1) ELSE 0

----------------------------------------------------------------------------
(* C16: at every position of a C-like or SQL scan at most one of the modes  *)
(* line comment, block comment, string and char literal is active; quote    *)
(* is a quote character of the scanner while a string is open; and escape   *)
(* is pending only while a literal is open and only just after an unescaped *)
(* backslash, one that ends an odd run of backslashes.                      *)
C16_ExactlyOneMode ==
    (fn \in {"c", "sql"} /\ pc \in {"loop", "done"}) =>
        LET modes == IF fn = "c"
                     THEN <<st.in_line, st.in_block, st.in_str, st.in_char>>
                     ELSE <<st.in_block, st.in_str>>
        IN  /\ Cardinality({k \in DOMAIN modes : modes[k]}) <= 1
            /\ st.in_str => st.quote \in StringQuotes(fn)
            /\ st.escape => /\ LiteralOpen
                            /\ BackslashRun(arg.text, st.i) % 2 = 1

\* Escape is pending after the third backslash in a row of an open literal
C16_Witness ==
    /\ fn \in {"c", "sql"} /\ pc = "loop"
    /\ LiteralOpen /\ st.escape
    /\ BackslashRun(arg.text, st.i) = 3

----------------------------------------------------------------------------
(* C17: when the C-like or SQL scanner reads a line-comment opener in       *)
(* normal mode, the result of the scan is what has been emitted so far,     *)
(* followed by the result of a scan, from normal mode, of the text from the *)
(* next newline on: the opener and everything up to that newline is         *)
(* removed, the newline is emitted, and nothing of a later line is removed  *)
(* by this comment.  Without a next newline the rest of the input is        *)
(* removed.                                                                 *)
C17_LineCommentEndsAtNewline ==
    OpensHere(LineOpen) =>
        LET rest == Slice(arg.text, SkipToNewline(arg.text, st.i), Len(arg.text))
        IN  /\ Scan(fn, arg, arg.text) = st.out \o Scan(fn, arg, rest)
            /\ rest # <<>> => Scan(fn, arg, rest) = <<NL>> \o Scan(fn, arg, Tail(rest))

\* A line comment has been removed from the middle of a text: the text
\* before it, the newline that ends it and the line after it are the result
C17_Witness ==
    /\ fn \in {"c", "sql"} /\ pc = "done"
    /\ \E a \in 1 .. Len(arg.text) :
          LET e == SkipToNewline(arg.text, a)
          IN  /\ At(arg.text, LineOpen, a)
              /\ a + Len(LineOpen) < e /\ e + 1 < Len(arg.text)
              /\ ret = Slice(arg.text, 0, a) \o Slice(arg.text, e, Len(arg.text))

----------------------------------------------------------------------------
(* C18: strip_c_like_comments and strip_sql_comments are idempotent: the    *)
(* scanner applied to its own result returns that result.                   *)
C18_StrippingIdempotent ==
    (fn \in {"c", "sql"} /\ pc = "done") => Scan(fn, arg, ret) = ret

----------------------------------------------------------------------------
(* Vocabulary of the deletion claim *)

RECURSIVE IsSubsequence(_, _)
\* s is t with some characters deleted
IsSubsequence(s, t) ==
    IF s = <<>> THEN TRUE
    ELSE IF t = <<>> THEN FALSE
    ELSE IF s[1] = t[1] THEN IsSubsequence(Tail(s), Tail(t))
    ELSE IsSubsequence(s, Tail(t))

RECURSIVE ReadsOpener(_, _, _)
\* Whether the scan of text by the C-like or SQL scanner f, continued from
\* the locals s, reads a comment opener in normal mode
ReadsOpener(f, text, s) ==
    /\ s.i < Len(text)
    /\ \/ /\ IF f = "c" THEN ~(s.in_line \/ s.in_block \/ s.in_str \/ s.in_char)
             ELSE ~(s.in_block \/ s.in_str)
          /\ \E o \in Openers(f) : At(text, o, s.i)
       \/ ReadsOpener(f, text, IF f = "c" THEN CStep(text, s) ELSE SqlStep(text, s))

----------------------------------------------------------------------------
(* C19: the result of strip_c_like_comments and of strip_sql_comments is    *)
(* the text with some characters deleted, and it is the text itself when    *)
(* the scan reads no comment opener in normal mode.                         *)
C19_OnlyDeletes ==
    (fn \in {"c", "sql"} /\ pc = "done") =>
        /\ IsSubsequence(ret, arg.text)
        /\ ~ReadsOpener(fn, arg.text, IF fn = "c" THEN CLocals(arg.text)
                                      ELSE SqlLocals(arg.text))
               => ret = arg.text

\* A text with a comment opener that is read inside a literal only has come
\* back unchanged
C19_Witness ==
    /\ fn \in {"c", "sql"} /\ pc = "done"
    /\ \E o \in Openers(fn) : Contains(arg.text, o)
    /\ ~ReadsOpener(fn, arg.text, IF fn = "c" THEN CLocals(arg.text)
                                  ELSE SqlLocals(arg.text))
    /\ ret = arg.text

====
